---- MODULE Spec2Model ----
(***************************************************************************)
(* Model of LogEntryKey, LogEntry and LogSummary of src/common/LogEntry.h: *)
(* the per-channel tails, the global sequence counter and the key index,   *)
(* driven by add(), prune() and build_ordered_tail() (Spec), by encode()   *)
(* and decode() (SpecCodec), by prune() with one cap (SpecFixedCap), and   *)
(* the construction and hashing of LogEntryKey (SpecKey).                  *)
(***************************************************************************)
EXTENDS Integers, Sequences, FiniteSets, TLC

\* ---------------------------------------------------------------- bounds
\* add() is enabled while fewer than MaxAdds entries were admitted (caps the
\* uint64_t counter seq, which is far from wrapping within this bound).
MaxAdds == 3
\* prune() is called with max in 0..MaxPrune.
MaxPrune == 2
\* hash<entity_name_t> returns a value in 0..MaxHash.
MaxHash == 2

\* ------------------------------------------------------- input universes
Names == {"mon.a"}
Ranks == {0, 1}
Addrs == {"v2:10.0.0.1"}
Stamps == {0, 1}
Seqs == {0, 1}
CLOG_INFO == 1
Prios == {CLOG_INFO}
Msgs == {"msg"}
CLOG_CHANNEL_CLUSTER == "cluster"
CLOG_CHANNEL_AUDIT == "audit"
\* the channel names in the iteration order of map<string,...> (operator<
\* on std::string): "audit" < "cluster"
ChannelOrder == <<CLOG_CHANNEL_AUDIT, CLOG_CHANNEL_CLUSTER>>
Channels == {ChannelOrder[i] : i \in 1..Len(ChannelOrder)}

\* struct LogEntry
LogEntry == [name : Names, rank : Ranks, addrs : Addrs, stamp : Stamps,
             seq : Seqs, prio : Prios, msg : Msgs, channel : Channels]

\* ------------------------------------------------------------------ state
VARIABLES
  version,          \* version_t version
  tail_by_channel,  \* map<string, list<pair<uint64_t,LogEntry>>>
  seq,              \* uint64_t seq
  keys,             \* unordered_set<LogEntryKey> keys
  admitted,         \* the entries add() was called with, in call order
  last,             \* the most recent call: its name, its argument max and
                    \* the list it wrote through its out-parameter
  lhs,              \* a LogEntryKey object l
  rhs,              \* a LogEntryKey object r
  entity_hash       \* hash<entity_name_t>, as a function of the rank

vars == <<version, tail_by_channel, seq, keys, admitted, last,
          lhs, rhs, entity_hash>>

\* ------------------------------------------------------------ LogEntryKey
\* the values hash<entity_name_t> may return for a rank
HashValues == 0..MaxHash

\* LogEntryKey::_calc_hash: _hash = seq + h(rank) (uint64_t; the sum is far
\* from wrapping within the bounds)
_calc_hash(w, s) == s + entity_hash[w]

\* LogEntryKey(w, t, s): rank(w), stamp(t), seq(s), then _calc_hash()
LogEntryKey(w, t, s) ==
  [rank |-> w, stamp |-> t, seq |-> s, _hash |-> _calc_hash(w, s)]

\* entity_name_t(), utime_t(): the value-initialised rank and stamp
DefaultRank == 0
DefaultStamp == 0

\* LogEntryKey(): rank and stamp default-constructed, seq = 0, _hash = 0
LogEntryKey0 ==
  [rank |-> DefaultRank, stamp |-> DefaultStamp, seq |-> 0, _hash |-> 0]

\* LogEntryKey::get_hash
get_hash(k) == k._hash

\* operator==(const LogEntryKey&, const LogEntryKey&)
KeyEq(l, r) == l.rank = r.rank /\ l.stamp = r.stamp /\ l.seq = r.seq

\* LogEntry::key()
key(e) == LogEntryKey(e.rank, e.stamp, e.seq)

\* the entries handed to add(): those that differ from the all-zero identity
\* in at most one of rank, stamp and seq, in either channel
Entries == {e \in LogEntry : e.rank + e.stamp + e.seq <= 1}

\* every key value such an entry can produce
LogEntryKeys == {key(e) : e \in Entries}

\* unordered_set<LogEntryKey>::insert: no effect when an equal key is present
KeysInsert(ks, k) == IF \E x \in ks : KeyEq(x, k) THEN ks ELSE ks \cup {k}

\* unordered_set<LogEntryKey>::erase(key): removes the equal element, if any
KeysErase(ks, k) == {x \in ks : ~KeyEq(x, k)}

\* unordered_set<LogEntryKey>::count(key)
KeysCount(ks, k) == Cardinality({x \in ks : KeyEq(x, k)})

\* ------------------------------------------------------------- LogSummary
Call(op, max, out) == [op |-> op, max |-> max, out |-> out]

\* LogSummary() : version(0); seq = 0; empty map; empty set
InitSummary ==
  /\ version = 0
  /\ tail_by_channel = [c \in {} |-> <<>>]
  /\ seq = 0
  /\ keys = {}
  /\ admitted = <<>>
  /\ last = Call("LogSummary", 0, <<>>)

\* the empty summary and two default-constructed keys. No operation of
\* LogSummary reads _hash other than through keys, which only holds keys
\* made by the three-argument constructor, so one hash function stands for
\* all of them here.
Init ==
  /\ InitSummary
  /\ lhs = LogEntryKey0
  /\ rhs = LogEntryKey0
  /\ entity_hash = [w \in Ranks |-> w + 1]

\* tail_by_channel[c] of the C++ map: the list, created empty when absent
MapAt(tbc, c) == IF c \in DOMAIN tbc THEN tbc[c] ELSE <<>>

\* push_back replaced by push_front: the pair is stored at the front
PushBack_Front(tbc, s, e) ==
  [c \in DOMAIN tbc \cup {e.channel} |->
     IF c = e.channel
     THEN <<[first |-> s, second |-> e]>> \o MapAt(tbc, c)
     ELSE tbc[c]]

\* the stored copy's seq field overwritten by the assigned sequence
PushBack_OverwriteSeq(tbc, s, e) ==
  [c \in DOMAIN tbc \cup {e.channel} |->
     IF c = e.channel
     THEN Append(MapAt(tbc, c), [first |-> s, second |-> [e EXCEPT !.seq = s]])
     ELSE tbc[c]]

\* tail_by_channel[e.channel].push_back(make_pair(s, e))
PushBack(tbc, s, e) ==
  [c \in DOMAIN tbc \cup {e.channel} |->
     IF c = e.channel
     THEN Append(MapAt(tbc, c), [first |-> s, second |-> e])
     ELSE tbc[c]]

\* add without keys.insert(e.key())
Add_NoInsert(e) ==
  /\ seq < MaxAdds
  /\ keys' = keys
  /\ seq' = seq + 1
  /\ tail_by_channel' = PushBack(tail_by_channel, seq', e)
  /\ admitted' = Append(admitted, e)
  /\ last' = Call("add", 0, <<>>)
  /\ UNCHANGED <<version, lhs, rhs, entity_hash>>

\* add numbering the pair by its position in its own channel list instead of
\* by the global counter
Add_PerChannelSeq(e) ==
  /\ seq < MaxAdds
  /\ keys' = KeysInsert(keys, key(e))
  /\ seq' = seq + 1
  /\ tail_by_channel' =
       PushBack(tail_by_channel, Len(MapAt(tail_by_channel, e.channel)) + 1, e)
  /\ admitted' = Append(admitted, e)
  /\ last' = Call("add", 0, <<>>)
  /\ UNCHANGED <<version, lhs, rhs, entity_hash>>

\* add returning early when the key is already in keys
Add_RejectDuplicate(e) ==
  /\ seq < MaxAdds
  /\ IF KeysCount(keys, key(e)) > 0
     THEN UNCHANGED <<keys, seq, tail_by_channel, admitted>>
     ELSE /\ keys' = KeysInsert(keys, key(e))
          /\ seq' = seq + 1
          /\ tail_by_channel' = PushBack(tail_by_channel, seq', e)
          /\ admitted' = Append(admitted, e)
  /\ last' = Call("add", 0, <<>>)
  /\ UNCHANGED <<version, lhs, rhs, entity_hash>>

\* add with make_pair(seq++, e): the pair gets the value before the increment
Add_PostIncrement(e) ==
  /\ seq < MaxAdds
  /\ keys' = KeysInsert(keys, key(e))
  /\ seq' = seq + 1
  /\ tail_by_channel' = PushBack(tail_by_channel, seq, e)
  /\ admitted' = Append(admitted, e)
  /\ last' = Call("add", 0, <<>>)
  /\ UNCHANGED <<version, lhs, rhs, entity_hash>>

\* LogSummary::add
Add(e) ==
  /\ seq < MaxAdds
  /\ keys' = KeysInsert(keys, key(e))
  /\ seq' = seq + 1
  /\ tail_by_channel' = PushBack(tail_by_channel, seq', e)
  /\ admitted' = Append(admitted, e)
  /\ last' = Call("add", 0, <<>>)
  /\ UNCHANGED <<version, lhs, rhs, entity_hash>>

\* the loop with the test size() > max + 1: stops one entry early
RECURSIVE PruneList_OffByOne(_, _, _)
PruneList_OffByOne(l, ks, max) ==
  IF Len(l) > max + 1
  THEN PruneList_OffByOne(Tail(l), KeysErase(ks, key(Head(l).second)), max)
  ELSE [list |-> l, keys |-> ks]

\* the loop with back()/pop_back(): removes the newest entries
RECURSIVE PruneList_PopBack(_, _, _)
PruneList_PopBack(l, ks, max) ==
  IF Len(l) > max
  THEN PruneList_PopBack(SubSeq(l, 1, Len(l) - 1),
                         KeysErase(ks, key(l[Len(l)].second)), max)
  ELSE [list |-> l, keys |-> ks]

\* the loop without keys.erase
RECURSIVE PruneList_NoErase(_, _, _)
PruneList_NoErase(l, ks, max) ==
  IF Len(l) > max
  THEN PruneList_NoErase(Tail(l), ks, max)
  ELSE [list |-> l, keys |-> ks]

\* an if in place of the while: pops at most one entry per call
PruneList_IfOnce(l, ks, max) ==
  IF Len(l) > max
  THEN [list |-> Tail(l), keys |-> KeysErase(ks, key(Head(l).second))]
  ELSE [list |-> l, keys |-> ks]

\* the loop erasing the key of the back entry while popping the front
RECURSIVE PruneList_EraseBack(_, _, _)
PruneList_EraseBack(l, ks, max) ==
  IF Len(l) > max
  THEN PruneList_EraseBack(Tail(l), KeysErase(ks, key(l[Len(l)].second)), max)
  ELSE [list |-> l, keys |-> ks]

\* the loop erasing the key only when the popped entry was the list's last
RECURSIVE PruneList_EraseWhenEmpty(_, _, _)
PruneList_EraseWhenEmpty(l, ks, max) ==
  IF Len(l) > max
  THEN PruneList_EraseWhenEmpty(Tail(l),
         IF Len(l) = 1 THEN KeysErase(ks, key(Head(l).second)) ELSE ks, max)
  ELSE [list |-> l, keys |-> ks]

\* the while loop of prune on one channel list: pops the front and erases
\* its key while the list is longer than max
RECURSIVE PruneList(_, _, _)
PruneList(l, ks, max) ==
  IF Len(l) > max
  THEN PruneList(Tail(l), KeysErase(ks, key(Head(l).second)), max)
  ELSE [list |-> l, keys |-> ks]

\* the loop over the map that also erases a channel it has emptied
RECURSIVE PruneFrom_DropEmpty(_, _, _, _)
PruneFrom_DropEmpty(i, tbc, ks, max) ==
  IF i > Len(ChannelOrder) THEN [tail_by_channel |-> tbc, keys |-> ks]
  ELSE IF ChannelOrder[i] \notin DOMAIN tbc
  THEN PruneFrom_DropEmpty(i + 1, tbc, ks, max)
  ELSE LET r == PruneList(tbc[ChannelOrder[i]], ks, max)
       IN PruneFrom_DropEmpty(i + 1,
            IF r.list = <<>>
            THEN [c \in DOMAIN tbc \ {ChannelOrder[i]} |-> tbc[c]]
            ELSE [tbc EXCEPT ![ChannelOrder[i]] = r.list],
            r.keys, max)

\* the for loop of prune over the map, from the i-th channel name on
RECURSIVE PruneFrom(_, _, _, _)
PruneFrom(i, tbc, ks, max) ==
  IF i > Len(ChannelOrder) THEN [tail_by_channel |-> tbc, keys |-> ks]
  ELSE IF ChannelOrder[i] \notin DOMAIN tbc THEN PruneFrom(i + 1, tbc, ks, max)
  ELSE LET r == PruneList(tbc[ChannelOrder[i]], ks, max)
       IN PruneFrom(i + 1, [tbc EXCEPT ![ChannelOrder[i]] = r.list], r.keys, max)

\* LogSummary::prune
Prune(max) ==
  LET r == PruneFrom(1, tail_by_channel, keys, max)
  IN /\ tail_by_channel' = r.tail_by_channel
     /\ keys' = r.keys
     /\ last' = Call("prune", max, <<>>)
     /\ UNCHANGED <<version, seq, admitted, lhs, rhs, entity_hash>>

\* LogSummary::contains
contains(k) == KeysCount(keys, k) > 0

\* ------------------------------------------------- build_ordered_tail
\* the channels whose list still has entries to merge
Pending(pos) == {c \in DOMAIN pos : pos[c] # <<>>}

\* the pending channel whose front pair has the least assigned sequence
MinChannel(pos) ==
  CHOOSE c \in Pending(pos) :
    \A d \in Pending(pos) : pos[c][1].first <= pos[d][1].first

\* the lists concatenated channel by channel, from the i-th channel name on
RECURSIVE GroupedFrom(_, _, _)
GroupedFrom(i, pos, out) ==
  IF i > Len(ChannelOrder) THEN out
  ELSE GroupedFrom(i + 1, pos,
         out \o [j \in 1..Len(MapAt(pos, ChannelOrder[i])) |->
                  pos[ChannelOrder[i]][j].second])

\* the output grouped by channel instead of merged
Merge_Grouped(pos, out) == GroupedFrom(1, pos, out)

\* k-way merge of the per-channel lists by ascending assigned sequence
RECURSIVE Merge(_, _)
Merge(pos, out) ==
  IF Pending(pos) = {} THEN out
  ELSE LET c == MinChannel(pos)
       IN Merge([pos EXCEPT ![c] = Tail(pos[c])], Append(out, pos[c][1].second))

\* LogSummary::build_ordered_tail(list<LogEntry> *tail) const
BuildOrderedTail ==
  /\ last' = Call("build_ordered_tail", 0, Merge(tail_by_channel, <<>>))
  /\ UNCHANGED <<version, tail_by_channel, seq, keys, admitted,
               lhs, rhs, entity_hash>>

\* ------------------------------------------------------- derived views
\* the (assigned sequence, entry) pairs stored in any channel list
Pairs(tbc) == UNION {{tbc[c][i] : i \in 1..Len(tbc[c])} : c \in DOMAIN tbc}

\* the keys of the entries stored in any channel list
RetainedKeys(tbc) == {key(p.second) : p \in Pairs(tbc)}

\* the sum of the lengths of the channel lists, from the i-th channel name on
RECURSIVE SizeFrom(_, _)
SizeFrom(i, tbc) ==
  IF i > Len(ChannelOrder) THEN 0
  ELSE Len(MapAt(tbc, ChannelOrder[i])) + SizeFrom(i + 1, tbc)

\* the number of entries stored across all channels
TotalSize(tbc) == SizeFrom(1, tbc)

\* the entry of the most recent add() call
LastAdmitted == admitted[Len(admitted)]

\* some entry admitted to channel c before the front of c was admitted is
\* gone: the front of c has been pruned at least once
FrontPruned(c) ==
  /\ c \in DOMAIN tail_by_channel
  /\ \E i \in 1..Len(admitted) :
       /\ admitted[i].channel = c
       /\ \A p \in Pairs(tail_by_channel) : p.first # i

\* ----------------------------------------------------------------- C1
\* C1: in every reachable state keys equals exactly the set of the keys of
\* the entries stored in the channel lists.
C1_KeysMirrorRetained == keys = RetainedKeys(tail_by_channel)

\* ----------------------------------------------------------------- C2
\* C2: immediately after add(e), contains(e.key()) returns true, whether or
\* not the key was present before the call.
C2_AddImpliesContains ==
  [][\A e \in Entries : Add(e) => contains(key(e))']_vars

\* add() has just admitted an entry whose key another stored entry shares
C2_Witness ==
  /\ last.op = "add"
  /\ contains(key(LastAdmitted))
  /\ \E p \in Pairs(tail_by_channel) :
       p.first < seq /\ KeyEq(key(p.second), key(LastAdmitted))

\* ----------------------------------------------------------------- C3
\* C3: immediately after prune(max), for every max >= 0 including 0, every
\* channel list has at most max entries.
C3_PruneBoundsLength ==
  [][\A max \in 0..MaxPrune :
       Prune(max) => \A c \in DOMAIN tail_by_channel' :
                        Len(tail_by_channel'[c]) <= max]_vars

\* prune(0) has emptied channels that had been populated
C3_Witness ==
  /\ last.op = "prune"
  /\ last.max = 0
  /\ DOMAIN tail_by_channel = Channels
  /\ \A c \in Channels : tail_by_channel[c] = <<>> /\ FrontPruned(c)

\* ----------------------------------------------------------------- C4
\* C4: a channel list holding r1..rk before prune(max) with max < k holds
\* exactly r(k-max+1)..rk, in the same order, after it.
C4_PruneKeepsLastMax ==
  [][\A max \in 0..MaxPrune :
       Prune(max) =>
         \A c \in DOMAIN tail_by_channel :
           LET l == tail_by_channel[c]
           IN Len(l) > max =>
                tail_by_channel'[c] = SubSeq(l, Len(l) - max + 1, Len(l))]_vars

\* prune(max) with max >= 1 has left a channel at exactly max entries with
\* its older entries gone
C4_Witness ==
  /\ last.op = "prune"
  /\ last.max >= 1
  /\ \E c \in DOMAIN tail_by_channel :
       Len(tail_by_channel[c]) = last.max /\ FrontPruned(c)

\* ----------------------------------------------------------------- C5
\* every stored pair carries, as its assigned sequence, the position of the
\* add() call that admitted its entry
AdmissionIndexed ==
  \A p \in Pairs(tail_by_channel) :
    p.first \in 1..Len(admitted) /\ admitted[p.first] = p.second

\* no two stored pairs, in the same or in different channels, carry the same
\* assigned sequence
SeqsDistinct ==
  \A c, d \in DOMAIN tail_by_channel :
    \A i \in 1..Len(tail_by_channel[c]) : \A j \in 1..Len(tail_by_channel[d]) :
      (c # d \/ i # j) => tail_by_channel[c][i].first # tail_by_channel[d][j].first

\* the pair add(e) stores is the back of e's channel and its assigned
\* sequence exceeds that of every pair stored before the call
AddAssignsGreater(e) ==
  LET l == tail_by_channel'[e.channel]
  IN /\ l # <<>>
     /\ l[Len(l)].first = Len(admitted')
     /\ \A p \in Pairs(tail_by_channel) : p.first < l[Len(l)].first

\* C5: the assigned sequences stored across all channels are pairwise
\* distinct, and an entry admitted before another one, in the same or in a
\* different channel, has the strictly smaller assigned sequence.
C5_GlobalSeqOrder ==
  /\ [](SeqsDistinct /\ AdmissionIndexed)
  /\ [][\A e \in Entries : Add(e) => AddAssignsGreater(e)]_vars

\* both channels hold entries and an older entry has been pruned
C5_Witness ==
  /\ \A c \in Channels : c \in DOMAIN tail_by_channel /\ tail_by_channel[c] # <<>>
  /\ \E c \in Channels : FrontPruned(c)
  /\ TotalSize(tail_by_channel) >= 2

\* ----------------------------------------------------------------- C6
\* within each channel list the assigned sequences strictly increase from
\* front to back
ChannelSeqsIncreasing ==
  \A c \in DOMAIN tail_by_channel :
    \A i, j \in 1..Len(tail_by_channel[c]) :
      i < j => tail_by_channel[c][i].first < tail_by_channel[c][j].first

\* add(e) appends one pair at the back of e's channel
AddAppendsAtBack(e) ==
  LET old == MapAt(tail_by_channel, e.channel)
      new == tail_by_channel'[e.channel]
  IN Len(new) = Len(old) + 1 /\ SubSeq(new, 1, Len(old)) = old

\* prune leaves of every channel list a suffix: it removes at the front only
PruneRemovesAtFront ==
  \A c \in DOMAIN tail_by_channel :
    LET old == tail_by_channel[c]
        new == tail_by_channel'[c]
    IN Len(new) <= Len(old)
       /\ new = SubSeq(old, Len(old) - Len(new) + 1, Len(old))

\* C6: within each channel list the assigned sequences are strictly
\* increasing from front to back; add only appends at the back and prune
\* only removes at the front.
C6_ChannelOrder ==
  /\ []ChannelSeqsIncreasing
  /\ [][\A e \in Entries : Add(e) => AddAppendsAtBack(e)]_vars
  /\ [][\A max \in 0..MaxPrune : Prune(max) => PruneRemovesAtFront]_vars

\* a channel holds two entries behind a pruned front
C6_Witness ==
  \E c \in DOMAIN tail_by_channel :
    Len(tail_by_channel[c]) >= 2 /\ FrontPruned(c)

\* ----------------------------------------------------------------- C7
\* C7: from the empty summary, after N+1 add calls to one single channel and
\* then prune(N), contains() is false for the key of the first admitted
\* entry and true for the key of each of the other N entries.
C7_ScenarioB ==
  [][\A max \in 0..MaxPrune :
       (/\ Prune(max)
        /\ seq = max + 1
        /\ \E c \in Channels :
             DOMAIN tail_by_channel = {c} /\ Len(tail_by_channel[c]) = seq)
       => \A c \in DOMAIN tail_by_channel : \A k \in LogEntryKeys :
            /\ k = key(tail_by_channel[c][1].second) => ~contains(k)'
            /\ \A i \in 2..Len(tail_by_channel[c]) :
                 k = key(tail_by_channel[c][i].second) => contains(k)']_vars

\* ----------------------------------------------------------------- C8
\* C8: when prune(max) removes an entry from the front of one channel while
\* an entry with the same key stays in a different channel, the key is
\* erased: contains(key) is false afterwards although an entry with that
\* key is still stored.
C8_CrossChannelErase ==
  [][\A max \in 0..MaxPrune :
       Prune(max) =>
         \A c, d \in DOMAIN tail_by_channel :
           \A i \in 1..Len(tail_by_channel[c]) :
             \A j \in 1..Len(tail_by_channel[d]) :
               \A k \in LogEntryKeys :
                 (/\ c # d
                  /\ k = key(tail_by_channel[c][i].second)
                  /\ KeyEq(k, key(tail_by_channel[d][j].second))
                  /\ i <= Len(tail_by_channel[c]) - max
                  /\ j > Len(tail_by_channel[d]) - max)
                 => /\ ~contains(k)'
                    /\ tail_by_channel[d][j] \in Pairs(tail_by_channel')]_vars

\* after prune, a stored entry's key is missing from keys and an entry with
\* the same key had been admitted to the other channel
C8_Witness ==
  /\ last.op = "prune"
  /\ \E p \in Pairs(tail_by_channel) :
       /\ ~contains(key(p.second))
       /\ \E i \in 1..Len(admitted) :
            /\ admitted[i].channel # p.second.channel
            /\ KeyEq(key(admitted[i]), key(p.second))
            /\ FrontPruned(admitted[i].channel)

\* ----------------------------------------------------------------- C9
\* C9: add(e) with a key already in keys still appends the entry: the
\* number of stored entries grows by exactly 1, the entry gets an assigned
\* sequence no stored pair has, and keys is unchanged as a set.
C9_AddKeepsDuplicate ==
  [][\A e \in Entries :
       (Add(e) /\ contains(key(e))) =>
         LET l == tail_by_channel'[e.channel]
         IN /\ TotalSize(tail_by_channel') = TotalSize(tail_by_channel) + 1
            /\ l[Len(l)].second = e
            /\ l[Len(l)].first = seq'
            /\ \A p \in Pairs(tail_by_channel) : p.first # seq'
            /\ keys' = keys]_vars

\* add() has just stored a second entry under a key: more entries are
\* stored than there are keys
C9_Witness ==
  /\ last.op = "add"
  /\ TotalSize(tail_by_channel) = seq
  /\ Cardinality(keys) < TotalSize(tail_by_channel)
  /\ Cardinality({p \in Pairs(tail_by_channel) :
                    KeyEq(key(p.second), key(LastAdmitted))}) >= 2

\* ----------------------------------------------------------------- C10
\* the stored pair that has exactly i - 1 stored pairs of smaller assigned
\* sequence
NthBySeq(tbc, i) ==
  CHOOSE p \in Pairs(tbc) :
    Cardinality({q \in Pairs(tbc) : q.first < p.first}) = i - 1

\* the stored entries by ascending assigned sequence
OrderedBySeq(tbc) ==
  [i \in 1..Cardinality(Pairs(tbc)) |-> NthBySeq(tbc, i).second]

\* C10: build_ordered_tail() outputs every stored entry exactly once (as
\* many entries as the channel lists hold together) in strictly ascending
\* order of assigned sequence, interleaving the channels, and leaves the
\* summary unchanged.
C10_OrderedTail ==
  [][BuildOrderedTail =>
       /\ Len(last'.out) = TotalSize(tail_by_channel)
       /\ last'.out = OrderedBySeq(tail_by_channel)
       /\ UNCHANGED <<version, tail_by_channel, seq, keys>>]_vars

\* X to "cluster", Y to "audit", Z to "cluster" were admitted and
\* build_ordered_tail() has output [X, Y, Z]
C10_Witness ==
  /\ last.op = "build_ordered_tail"
  /\ Len(admitted) = 3
  /\ admitted[1].channel = CLOG_CHANNEL_CLUSTER
  /\ admitted[2].channel = CLOG_CHANNEL_AUDIT
  /\ admitted[3].channel = CLOG_CHANNEL_CLUSTER
  /\ key(admitted[1]) # key(admitted[3])
  /\ last.out = admitted

Next ==
  \/ \E e \in Entries : Add(e)
  \/ \E max \in 0..MaxPrune : Prune(max)
  \/ BuildOrderedTail

Spec == Init /\ [][Next]_vars

\* ---------------------------------------------------------------- C14
\* the assigned sequence of the pair at the back of channel c in tbc
BackSeq(tbc, c) == tbc[c][Len(tbc[c])].first

\* C14: add(e) increments seq by exactly 1 and stores the new value as the
\* entry's assigned sequence; prune never changes seq. So seq equals the
\* number of add calls since the empty summary, every stored assigned
\* sequence lies in 1..seq, and the sequence of a pruned entry is never
\* assigned again (the new one exceeds every one assigned before).
C14_SeqCountsAdds ==
  /\ [](/\ seq = Len(admitted)
        /\ \A p \in Pairs(tail_by_channel) : p.first \in 1..seq)
  /\ [][\A e \in Entries :
          Add(e) => /\ seq' = seq + 1
                    /\ BackSeq(tail_by_channel', e.channel) = seq'
                    /\ BackSeq(tail_by_channel', e.channel) > seq]_vars
  /\ [][\A max \in 0..MaxPrune : Prune(max) => seq' = seq]_vars

\* add() has just stored an entry after earlier entries had been pruned:
\* fewer entries are stored than sequences were assigned
C14_Witness ==
  /\ last.op = "add"
  /\ seq >= 2
  /\ TotalSize(tail_by_channel) < seq
  /\ BackSeq(tail_by_channel, LastAdmitted.channel) = seq

\* ---------------------------------------------------------------- C15
\* C15: add(e) changes only the list of channel e.channel (created if
\* absent), appending at its back one pair whose entry equals e field for
\* field (its seq field is e.seq, not the assigned sequence); the pairs that
\* channel held, every other channel's list and version are unchanged.
C15_AddFrame ==
  [][\A e \in Entries :
       Add(e) =>
         LET old == MapAt(tail_by_channel, e.channel)
             new == tail_by_channel'[e.channel]
         IN /\ DOMAIN tail_by_channel' = DOMAIN tail_by_channel \cup {e.channel}
            /\ Len(new) = Len(old) + 1
            /\ SubSeq(new, 1, Len(old)) = old
            /\ new[Len(new)].second = e
            /\ \A c \in DOMAIN tail_by_channel :
                 c # e.channel => tail_by_channel'[c] = tail_by_channel[c]
            /\ version' = version]_vars

\* add(e) has appended e behind an older pair of its channel while the other
\* channel holds entries, and e.seq differs from the assigned sequence
C15_Witness ==
  /\ last.op = "add"
  /\ LET c == LastAdmitted.channel
     IN /\ Len(tail_by_channel[c]) >= 2
        /\ tail_by_channel[c][Len(tail_by_channel[c])].second = LastAdmitted
        /\ LastAdmitted.seq # BackSeq(tail_by_channel, c)
        /\ \E d \in DOMAIN tail_by_channel : d # c /\ tail_by_channel[d] # <<>>

\* ---------------------------------------------------------------- C16
\* the keys of the entries a prune with this max pops: those in front of the
\* last max pairs of their channel list
PoppedKeys(tbc, max) ==
  UNION {{key(tbc[c][i].second) : i \in 1..(Len(tbc[c]) - max)} : c \in DOMAIN tbc}

\* C16: prune(max) leaves a channel list of length <= max unchanged, leaves
\* the set of channel names unchanged (a fully pruned channel stays, with an
\* empty list), leaves seq and version unchanged, and removes from keys only
\* keys of entries it removes.
C16_PruneFrame ==
  [][\A max \in 0..MaxPrune :
       Prune(max) =>
         /\ DOMAIN tail_by_channel' = DOMAIN tail_by_channel
         /\ \A c \in DOMAIN tail_by_channel :
              Len(tail_by_channel[c]) <= max =>
                tail_by_channel'[c] = tail_by_channel[c]
         /\ seq' = seq
         /\ version' = version
         /\ keys' \subseteq keys
         /\ keys \ keys' \subseteq PoppedKeys(tail_by_channel, max)]_vars

\* prune(max) with max >= 1 has cut one channel to max entries and left the
\* other, never pruned, channel as it was
C16_Witness ==
  /\ last.op = "prune"
  /\ last.max >= 1
  /\ \E c, d \in DOMAIN tail_by_channel :
       /\ c # d
       /\ Len(tail_by_channel[c]) = last.max
       /\ FrontPruned(c)
       /\ tail_by_channel[d] # <<>>
       /\ ~FrontPruned(d)

\* ---------------------------------------------------------------- C17
\* C17: keys never holds a key that no stored entry has: whenever
\* contains(k) is true an entry with key k is stored in some channel; after
\* prune(0) keys is empty.
C17_NoFalsePositive ==
  /\ \A k \in keys : \E p \in Pairs(tail_by_channel) : KeyEq(key(p.second), k)
  /\ \A k \in LogEntryKeys : contains(k) => k \in RetainedKeys(tail_by_channel)
  /\ (last.op = "prune" /\ last.max = 0) => keys = {}

\* entries sharing a key had been admitted and prune(0) has emptied keys
C17_Witness ==
  /\ last.op = "prune"
  /\ last.max = 0
  /\ keys = {}
  /\ \E i, j \in 1..Len(admitted) : i < j /\ KeyEq(key(admitted[i]), key(admitted[j]))

\* ---------------------------------------------------------------- C18
\* all entries ever admitted have pairwise distinct keys
AdmittedDistinct ==
  \A i, j \in 1..Len(admitted) :
    i # j => ~KeyEq(key(admitted[i]), key(admitted[j]))

\* C18: as long as all admitted entries have pairwise distinct keys, keys is
\* exactly the set of the keys of the stored entries, it has as many
\* elements as entries are stored, and contains(k) is true iff an entry with
\* key k is stored.
C18_DistinctExact ==
  AdmittedDistinct =>
    /\ keys = RetainedKeys(tail_by_channel)
    /\ Cardinality(keys) = TotalSize(tail_by_channel)
    /\ \A k \in LogEntryKeys :
         contains(k) <=> \E p \in Pairs(tail_by_channel) : KeyEq(key(p.second), k)

\* three entries of distinct keys were admitted to both channels, and prune
\* has removed some but not all of them
C18_Witness ==
  /\ AdmittedDistinct
  /\ Len(admitted) >= 3
  /\ last.op = "prune"
  /\ DOMAIN tail_by_channel = Channels
  /\ TotalSize(tail_by_channel) \in 1..(Len(admitted) - 1)

\* ---------------------------------------------------------------- C19
\* prune(a) followed by prune(b), as values of tail_by_channel and keys
PruneTwice(a, b) ==
  LET r == PruneFrom(1, tail_by_channel, keys, a)
  IN PruneFrom(1, r.tail_by_channel, r.keys, b)

Min(a, b) == IF a <= b THEN a ELSE b

\* C19: prune(a) followed by prune(b) yields the tail_by_channel, keys, seq
\* and version of one prune(min(a, b)); in particular prune(a) twice equals
\* prune(a) once, also when keys repeat.
C19_PruneComposes ==
  /\ [](\A a, b \in 0..MaxPrune :
          PruneTwice(a, b) = PruneFrom(1, tail_by_channel, keys, Min(a, b)))
  /\ [][\A max \in 0..MaxPrune :
          Prune(max) => /\ seq' = seq /\ version' = version
                        /\ tail_by_channel'
                             = PruneFrom(1, tail_by_channel, keys, max).tail_by_channel
                        /\ keys' = PruneFrom(1, tail_by_channel, keys, max).keys]_vars

\* a list of three entries, two of them sharing a key, stands to be cut in
\* two steps
C19_Witness ==
  \E c \in DOMAIN tail_by_channel :
    /\ Len(tail_by_channel[c]) >= 3
    /\ \E i, j \in 1..Len(tail_by_channel[c]) :
         i < j /\ KeyEq(key(tail_by_channel[c][i].second),
                        key(tail_by_channel[c][j].second))
    /\ PruneTwice(2, 1) # PruneFrom(1, tail_by_channel, keys, 2)

\* ------------------------------------------------------ encode / decode
\* the format version tag written first
StructV == 3

\* the versions a caller stamps on the summary before persisting it
Versions == {0, 1}

\* LogEntry::encode with every optional field present
EncodeEntry(e) ==
  <<e.name, e.rank, e.addrs, e.stamp, e.seq, e.prio, e.msg, e.channel>>

\* one channel list from its i-th pair on: (assigned sequence, entry) each
RECURSIVE EncodePairs(_, _)
EncodePairs(l, i) ==
  IF i > Len(l) THEN <<>>
  ELSE <<l[i].first>> \o EncodeEntry(l[i].second) \o EncodePairs(l, i + 1)

\* the map from the i-th channel name on: name, length, pairs
RECURSIVE EncodeChannels(_, _)
EncodeChannels(tbc, i) ==
  IF i > Len(ChannelOrder) THEN <<>>
  ELSE IF ChannelOrder[i] \notin DOMAIN tbc THEN EncodeChannels(tbc, i + 1)
  ELSE <<ChannelOrder[i], Len(tbc[ChannelOrder[i]])>>
         \o EncodePairs(tbc[ChannelOrder[i]], 1)
         \o EncodeChannels(tbc, i + 1)

\* LogSummary::encode: tag, version, seq, number of channels, channels
EncodeSummary(v, sq, tbc) ==
  <<StructV, v, sq, Cardinality(DOMAIN tbc)>> \o EncodeChannels(tbc, 1)

\* LogEntry::decode at position pos of the buffer
DecodeEntry(bl, pos) ==
  [name |-> bl[pos], rank |-> bl[pos + 1], addrs |-> bl[pos + 2],
   stamp |-> bl[pos + 3], seq |-> bl[pos + 4], prio |-> bl[pos + 5],
   msg |-> bl[pos + 6], channel |-> bl[pos + 7]]

\* the fields one encoded pair takes: the assigned sequence and the entry
PairWidth == Len(EncodeEntry(CHOOSE e \in LogEntry : TRUE)) + 1

\* n pairs read from position pos on, appended to l
RECURSIVE DecodePairs(_, _, _, _)
DecodePairs(bl, pos, n, l) ==
  IF n = 0 THEN [list |-> l, pos |-> pos]
  ELSE DecodePairs(bl, pos + PairWidth, n - 1,
         Append(l, [first |-> bl[pos], second |-> DecodeEntry(bl, pos + 1)]))

\* n channels read from position pos on into the map tbc
RECURSIVE DecodeChannels(_, _, _, _)
DecodeChannels(bl, pos, n, tbc) ==
  IF n = 0 THEN tbc
  ELSE LET r == DecodePairs(bl, pos + 2, bl[pos + 1], <<>>)
       IN DecodeChannels(bl, r.pos, n - 1,
            [c \in DOMAIN tbc \cup {bl[pos]} |->
               IF c = bl[pos] THEN r.list ELSE tbc[c]])

\* keys.insert(e.key()) for the pairs of one list from the i-th on
RECURSIVE InsertKeys(_, _, _)
InsertKeys(l, i, ks) ==
  IF i > Len(l) THEN ks
  ELSE InsertKeys(l, i + 1, KeysInsert(ks, key(l[i].second)))

\* keys rebuilt from the decoded lists, from the i-th channel name on
RECURSIVE RebuildKeys(_, _, _)
RebuildKeys(tbc, i, ks) ==
  IF i > Len(ChannelOrder) THEN ks
  ELSE RebuildKeys(tbc, i + 1, InsertKeys(MapAt(tbc, ChannelOrder[i]), 1, ks))

\* decode that keeps the keys the object had instead of rebuilding them
DecodeSummary_KeepKeys(bl, ks) ==
  LET tbc == DecodeChannels(bl, 5, bl[4], [c \in {} |-> <<>>])
  IN [version |-> bl[2], seq |-> bl[3], tail_by_channel |-> tbc, keys |-> ks]

\* LogSummary::decode of a well-formed buffer: version, seq and the map are
\* read, keys is cleared and rebuilt from the decoded entries
DecodeSummary(bl, ks) ==
  LET tbc == DecodeChannels(bl, 5, bl[4], [c \in {} |-> <<>>])
  IN [version |-> bl[2], seq |-> bl[3], tail_by_channel |-> tbc,
      keys |-> RebuildKeys(tbc, 1, {})]

\* the caller stamps a version on the summary (the member is public)
SetVersion(v) ==
  /\ version # v
  /\ version' = v
  /\ last' = Call("version", 0, <<>>)
  /\ UNCHANGED <<tail_by_channel, seq, keys, admitted, lhs, rhs, entity_hash>>

\* LogSummary::encode(bl, features) const
Encode ==
  /\ last' = Call("encode", 0, EncodeSummary(version, seq, tail_by_channel))
  /\ UNCHANGED <<version, tail_by_channel, seq, keys, admitted,
                 lhs, rhs, entity_hash>>

\* LogSummary::decode(bl) of the buffer encode has just written
Decode ==
  /\ last.op = "encode"
  /\ last.out[1] = StructV
  /\ LET d == DecodeSummary(last.out, keys)
     IN /\ version' = d.version
        /\ seq' = d.seq
        /\ tail_by_channel' = d.tail_by_channel
        /\ keys' = d.keys
  /\ last' = Call("decode", 0, <<>>)
  /\ UNCHANGED <<admitted, lhs, rhs, entity_hash>>

NextCodec ==
  \/ \E e \in Entries : Add(e)
  \/ \E max \in 0..MaxPrune : Prune(max)
  \/ \E v \in Versions : SetVersion(v)
  \/ Encode
  \/ Decode

SpecCodec == Init /\ [][NextCodec]_vars

FixedCap == 1

NextFixedCap ==
  \/ \E e \in Entries : Add(e)
  \/ Prune(FixedCap)

SpecFixedCap == Init /\ [][NextFixedCap]_vars

\* the entries admitted to channel c, in admission order
ChannelAdmitted(c) == SelectSeq(admitted, LAMBDA e : e.channel = c)

\* the last n elements of the sequence q, all of q when it has fewer
LastN(q, n) == IF Len(q) <= n THEN q ELSE SubSeq(q, Len(q) - n + 1, Len(q))

\* the entries of a channel list, without their assigned sequences
EntriesOf(l) == [i \in 1..Len(l) |-> l[i].second]

\* ---------------------------------------------------------------- C12
\* C12: with one cap N used for every prune call, no channel list holds more
\* than N entries in any state reachable by interleaving add(e) and prune(N).
C12_NeverAboveCap ==
  \A c \in DOMAIN tail_by_channel : Len(tail_by_channel[c]) <= FixedCap

\* C12 as amended: with one cap N used for every prune call, in the state
\* immediately after each prune(N) every channel list holds exactly the most
\* recent N entries admitted to that channel (all of them when fewer were
\* admitted), hence at most N.
C12_CapAfterPrune ==
  last.op = "prune" =>
    \A c \in DOMAIN tail_by_channel :
      /\ Len(tail_by_channel[c]) <= FixedCap
      /\ EntriesOf(tail_by_channel[c]) = LastN(ChannelAdmitted(c), FixedCap)

\* prune(N) has cut a channel that had been admitted more than N entries
C12_Witness ==
  /\ last.op = "prune"
  /\ last.max = FixedCap
  /\ \E c \in DOMAIN tail_by_channel :
       /\ Len(ChannelAdmitted(c)) > FixedCap
       /\ Len(tail_by_channel[c]) = FixedCap

\* ----------------------------------------------- LogEntryKey construction
\* two default-constructed keys, under any hash<entity_name_t>
InitKey ==
  /\ InitSummary
  /\ lhs = LogEntryKey0
  /\ rhs = LogEntryKey0
  /\ entity_hash \in [Ranks -> HashValues]

\* l = LogEntryKey()
DefaultConstructL ==
  /\ lhs' = LogEntryKey0
  /\ UNCHANGED <<version, tail_by_channel, seq, keys, admitted, last,
                 rhs, entity_hash>>

\* r = LogEntryKey()
DefaultConstructR ==
  /\ rhs' = LogEntryKey0
  /\ UNCHANGED <<version, tail_by_channel, seq, keys, admitted, last,
                 lhs, entity_hash>>

\* l = LogEntryKey(w, t, s)
ConstructL(w, t, s) ==
  /\ lhs' = LogEntryKey(w, t, s)
  /\ UNCHANGED <<version, tail_by_channel, seq, keys, admitted, last,
                 rhs, entity_hash>>

\* r = LogEntryKey(w, t, s)
ConstructR(w, t, s) ==
  /\ rhs' = LogEntryKey(w, t, s)
  /\ UNCHANGED <<version, tail_by_channel, seq, keys, admitted, last,
                 lhs, entity_hash>>

NextKey ==
  \/ DefaultConstructL
  \/ DefaultConstructR
  \/ \E w \in Ranks, t \in Stamps, s \in Seqs : ConstructL(w, t, s)
  \/ \E w \in Ranks, t \in Stamps, s \in Seqs : ConstructR(w, t, s)

SpecKey == InitKey /\ [][NextKey]_vars

\* ---------------------------------------------------------------- C13
\* C13: any two LogEntryKey values that compare equal (rank, stamp and seq
\* all equal) have the same get_hash(), whichever constructors built them,
\* the default constructor included.
C13_HashConsistent == KeyEq(lhs, rhs) => get_hash(lhs) = get_hash(rhs)

====
